---------------------------- MODULE Spec2Model ----------------------------
(***************************************************************************)
(* dolfin::la::SparsityPattern (src/cpp/dolfin/la/SparsityPattern.cpp).    *)
(*                                                                         *)
(* One SparsityPattern object per MPI rank, built by insert_global /       *)
(* insert_local / insert_local_global / insert_full_rows_local, finalised  *)
(* by the collective apply(), and read by the num_nonzeros* and *_pattern  *)
(* queries.  The block composer (merge constructor) is modelled under its  *)
(* own specification, SpecMerge.                                           *)
(*                                                                         *)
(* C++ indices are 0-based; TLA+ sequences are 1-based, so v[i] of the     *)
(* source is v[i + 1] here.                                                *)
(***************************************************************************)
EXTENDS Integers, Sequences, FiniteSets, TLC

(***************************************************************************)
(* Bounds of the model.                                                    *)
(***************************************************************************)
\* insert_* calls made in one run, over all ranks
MaxInserts == 2
\* insert_full_rows_local calls made in one run, over all ranks
MaxMarks == 1
\* the block sizes of the IndexMaps
BlockSizes == {1, 2}

\* std::size_t arithmetic wraps around: 2^64 in the code, 2^30 here (any
\* modulus above the sizes of the storage gives the same out-of-range index)
SizeModulus == 1073741824

(***************************************************************************)
(* Generic helpers.                                                        *)
(***************************************************************************)
Range(s) == {s[i] : i \in DOMAIN s}

Min(S) == CHOOSE x \in S : \A y \in S : x <= y

\* std::sort of the elements of a set of distinct integers: ascending
RECURSIVE SortedSeq(_)
SortedSeq(S) ==
  IF S = {} THEN <<>> ELSE <<Min(S)>> \o SortedSeq(S \ {Min(S)})

\* for (J = lo; J < hi; ++J) push_back(J)
RECURSIVE Iota(_, _)
Iota(lo, hi) == IF lo >= hi THEN <<>> ELSE <<lo>> \o Iota(lo + 1, hi)

RECURSIVE SumSeq(_)
SumSeq(s) == IF s = <<>> THEN 0 ELSE Head(s) + SumSeq(Tail(s))

\* the values of a function with domain 0..n-1, as a sequence
AsSeq(f) == [i \in 1..Cardinality(DOMAIN f) |-> f[i - 1]]

(***************************************************************************)
(* common::IndexMap, the external collaborator: a record                   *)
(*   bs      block size                                                    *)
(*   range   <<start, end>> of the owned nodes, in node units              *)
(*   ghosts  global node index of each ghost node                          *)
(*   owners  owning rank of each ghost node                                *)
(*   N       number of nodes over all ranks                                *)
(***************************************************************************)
block_size(im) == im.bs

local_range(im) == im.range

size_owned(im) == im.range[2] - im.range[1]

size_all(im) == size_owned(im) + Len(im.ghosts)

size_global(im) == im.N

ghosts(im) == im.ghosts

ghost_owners(im) == im.owners

\* global node index of local node i
local_to_global(im, i) ==
  IF i < size_owned(im) THEN i + im.range[1] ELSE im.ghosts[i - size_owned(im) + 1]

\* the IndexMap of the rows held by rank p of a communicator of np ranks
RowIndexMap(np, b, p) ==
  IF np = 1
  THEN [bs |-> b, range |-> <<0, 2>>, ghosts |-> <<>>, owners |-> <<>>, N |-> 2]
  ELSE IF p = 0
  THEN [bs |-> b, range |-> <<0, 2>>, ghosts |-> <<3, 2>>, owners |-> <<1, 1>>, N |-> 4]
  ELSE [bs |-> b, range |-> <<2, 4>>, ghosts |-> <<0>>, owners |-> <<0>>, N |-> 4]

\* the IndexMap of the columns held by rank p of a communicator of np ranks
ColIndexMap(np, b, p) ==
  IF np = 1
  THEN [bs |-> b, range |-> <<0, 3>>, ghosts |-> <<>>, owners |-> <<>>, N |-> 3]
  ELSE IF p = 0
  THEN [bs |-> b, range |-> <<0, 1>>, ghosts |-> <<2>>, owners |-> <<1>>, N |-> 3]
  ELSE [bs |-> b, range |-> <<1, 3>>, ghosts |-> <<0>>, owners |-> <<0>>, N |-> 3]

(***************************************************************************)
(* SparsityPattern: a record                                               *)
(*   index_maps     <<row IndexMap, column IndexMap>>                      *)
(*   diagonal       local row -> set of global columns                    *)
(*   off_diagonal   local row -> set of global columns                    *)
(*   full_rows      set of local rows                                      *)
(*   non_local      sequence of <<I, J>> pairs (the flat vector, in pairs) *)
(***************************************************************************)
local_size0(sp) == block_size(sp.index_maps[1]) * size_owned(sp.index_maps[1])

ghosted_size0(sp) == block_size(sp.index_maps[1]) * size_all(sp.index_maps[1])

\* SparsityPattern(comm, index_maps)
NewPattern(im0, im1) ==
  [index_maps   |-> <<im0, im1>>,
   diagonal     |-> [r \in 0..(block_size(im0) * size_owned(im0) - 1) |-> {}],
   off_diagonal |-> [r \in 0..(block_size(im0) * size_owned(im0) - 1) |-> {}],
   full_rows    |-> {},
   non_local    |-> <<>>]

\* local_range(dim), in element units
sp_local_range(sp, dim) ==
  <<block_size(sp.index_maps[dim + 1]) * local_range(sp.index_maps[dim + 1])[1],
    block_size(sp.index_maps[dim + 1]) * local_range(sp.index_maps[dim + 1])[2]>>

\* a variant of InLocalRange1 that compares the column with the node range
InLocalRange1_Nodes(sp, J) ==
  /\ local_range(sp.index_maps[2])[1] <= J
  /\ J < local_range(sp.index_maps[2])[2]

\* the test shared by insert_entries and apply: is J an owned column
InLocalRange1(sp, J) ==
  /\ block_size(sp.index_maps[2]) * local_range(sp.index_maps[2])[1] <= J
  /\ J < block_size(sp.index_maps[2]) * local_range(sp.index_maps[2])[2]

(***************************************************************************)
(* The three calling conventions: row_map and col_map of insert_global,    *)
(* insert_local and insert_local_global.                                   *)
(***************************************************************************)
Kinds == {"global", "local", "local_global"}

row_map(kind, i_index, index_map0) ==
  IF kind = "global"
  THEN i_index - block_size(index_map0) * local_range(index_map0)[1]
  ELSE i_index

col_map(kind, j_index, index_map1) ==
  IF kind = "local"
  THEN local_to_global(index_map1, j_index \div block_size(index_map1))
         + (j_index % block_size(index_map1))
  ELSE j_index

(***************************************************************************)
(* insert_entries                                                          *)
(***************************************************************************)
has_full_rows(sp) == sp.full_rows # {}

\* sequential mode, line 264: the row at position i (0-based) of the rows
\* argument is inserted unless _full_rows.find(i) finds the POSITION i
SerialInserted(sp, i, i_index) == ~has_full_rows(sp) \/ i \notin sp.full_rows

\* parallel mode, line 279: the mapped row I is skipped when it is a full row
ParallelSkipped(sp, I) == has_full_rows(sp) /\ I \in sp.full_rows

\* a variant of SerialColumns that inserts the first column only
SerialColumns_FirstOnly(cols) == {cols[1]}

\* sequential mode, line 266: the columns are inserted as given
SerialColumns(cols) == Range(cols)

\* parallel mode, lines 290-291 and 310-311: the mapped columns, in call order
MappedColumns(sp, kind, cols) ==
  [j \in 1..Len(cols) |-> col_map(kind, cols[j], sp.index_maps[2])]

\* a variant of NonLocalPairs that pushes row 0 whatever the row is
NonLocalPairs_RowZero(I, Js) == [j \in 1..Len(Js) |-> <<0, Js[j]>>]

\* lines 308-315: the pairs pushed for one non-local row
NonLocalPairs(I, Js) == [j \in 1..Len(Js) |-> <<I, Js[j]>>]

\* lines 274-317, the non-local part: the pairs pushed by rows i.. of the call
RECURSIVE NonLocalPushed(_, _, _, _, _)
NonLocalPushed(sp, kind, rows, cols, i) ==
  IF i > Len(rows) THEN <<>>
  ELSE (IF /\ ~ParallelSkipped(sp, row_map(kind, rows[i], sp.index_maps[1]))
           /\ ~(row_map(kind, rows[i], sp.index_maps[1]) < local_size0(sp))
        THEN NonLocalPairs(row_map(kind, rows[i], sp.index_maps[1]),
                           MappedColumns(sp, kind, cols))
        ELSE <<>>)
       \o NonLocalPushed(sp, kind, rows, cols, i + 1)

\* lines 285-303: does the call store columns in local row r
ParallelLocalRow(sp, kind, rows, r) ==
  \E i \in 1..Len(rows) :
    /\ row_map(kind, rows[i], sp.index_maps[1]) = r
    /\ ~ParallelSkipped(sp, r)
    /\ r < local_size0(sp)

insert_entries(sp, mpi_size, kind, rows, cols) ==
  IF mpi_size = 1
  THEN [sp EXCEPT !.diagonal =
          [r \in DOMAIN sp.diagonal |->
             IF \E i \in 1..Len(rows) :
                  rows[i] = r /\ SerialInserted(sp, i - 1, rows[i])
             THEN sp.diagonal[r] \cup SerialColumns(cols)
             ELSE sp.diagonal[r]]]
  ELSE [sp EXCEPT
          !.diagonal =
            [r \in DOMAIN sp.diagonal |->
               IF ParallelLocalRow(sp, kind, rows, r)
               THEN sp.diagonal[r] \cup
                      {J \in Range(MappedColumns(sp, kind, cols)) : InLocalRange1(sp, J)}
               ELSE sp.diagonal[r]],
          !.off_diagonal =
            [r \in DOMAIN sp.off_diagonal |->
               IF ParallelLocalRow(sp, kind, rows, r)
               THEN sp.off_diagonal[r] \cup
                      {J \in Range(MappedColumns(sp, kind, cols)) : ~InLocalRange1(sp, J)}
               ELSE sp.off_diagonal[r]],
          !.non_local = sp.non_local \o NonLocalPushed(sp, kind, rows, cols, 1)]

(***************************************************************************)
(* insert_full_rows_local                                                  *)
(***************************************************************************)
insert_full_rows_local(sp, rows) ==
  [sp EXCEPT !.full_rows = sp.full_rows \cup Range(rows)]

(***************************************************************************)
(* apply(): lines 452-517 run up to the all-to-all exchange, lines 523-561 *)
(* run when the exchange returns.                                          *)
(***************************************************************************)
\* lines 487-512: the destination rank and the global pair of one buffered pair
SendOwner(sp, pair) ==
  ghost_owners(sp.index_maps[1])
    [((pair[1] - local_size0(sp)) \div block_size(sp.index_maps[1])) + 1]

\* a variant of SendPair that sends the buffered pair as it is, the row in
\* the local numbering of the sender
SendPair_Unconverted(sp, pair) == pair

SendPair(sp, pair) ==
  IF pair[1] < local_size0(sp)
  THEN <<pair[1] + block_size(sp.index_maps[1]) * local_range(sp.index_maps[1])[1],
         pair[2]>>
  ELSE <<block_size(sp.index_maps[1])
           * ghosts(sp.index_maps[1])
               [((pair[1] - local_size0(sp)) \div block_size(sp.index_maps[1])) + 1]
           + ((pair[1] - local_size0(sp)) % block_size(sp.index_maps[1])),
         pair[2]>>

\* lines 474-517: non_local_send[p], for the buffered pairs i.. in order
RECURSIVE non_local_send(_, _, _)
non_local_send(sp, p, i) ==
  IF i > Len(sp.non_local) THEN <<>>
  ELSE (IF SendOwner(sp, sp.non_local[i]) = p
        THEN <<SendPair(sp, sp.non_local[i])>>
        ELSE <<>>)
       \o non_local_send(sp, p, i + 1)

\* line 533: the sanity check of a received global row I
ReceivedIllegal(sp, I) ==
  \/ I < local_range(sp.index_maps[1])[1]
  \/ I >= block_size(sp.index_maps[1]) * local_range(sp.index_maps[1])[2]

\* line 543: const std::size_t i_index = I - offset0, in unsigned arithmetic
received_i_index(sp, I) == (I - sp_local_range(sp, 0)[1]) % SizeModulus

\* lines 549, 554: the index is outside the storage; assert(i_index <
\* _diagonal.size()) fails in a build with assertions, and a build without
\* them indexes the vector out of bounds (undefined behaviour)
ReceivedOutOfStorage(sp, I) == received_i_index(sp, I) \notin DOMAIN sp.diagonal

\* a variant of InsertReceived in which the received column replaces the
\* columns of the row
InsertReceived_Overwrite(sp, I, J) ==
  IF InLocalRange1(sp, J)
  THEN [sp EXCEPT !.diagonal[received_i_index(sp, I)] = {J}]
  ELSE [sp EXCEPT !.off_diagonal[received_i_index(sp, I)] = {J}]

\* lines 543-556: one received pair stored in the diagonal or off-diagonal set
InsertReceived(sp, I, J) ==
  IF InLocalRange1(sp, J)
  THEN [sp EXCEPT !.diagonal[received_i_index(sp, I)] = @ \cup {J}]
  ELSE [sp EXCEPT !.off_diagonal[received_i_index(sp, I)] = @ \cup {J}]

\* lines 526-557: the received pairs i.. in order; thrown when one is illegal,
\* ub when one that passes the sanity check indexes outside the storage (sp
\* is then the pattern up to that pair)
RECURSIVE InsertAllReceived(_, _, _)
InsertAllReceived(sp, received, i) ==
  IF i > Len(received) THEN [thrown |-> FALSE, ub |-> FALSE, sp |-> sp]
  ELSE IF ReceivedIllegal(sp, received[i][1])
  THEN [thrown |-> TRUE, ub |-> FALSE, sp |-> sp]
  ELSE IF ReceivedOutOfStorage(sp, received[i][1])
  THEN [thrown |-> FALSE, ub |-> TRUE, sp |-> sp]
  ELSE InsertAllReceived(InsertReceived(sp, received[i][1], received[i][2]),
                         received, i + 1)

\* a variant of ClearNonLocal that leaves the buffer as it is
ClearNonLocal_Kept(sp) == sp

\* a variant of ClearNonLocal that drops the first buffered pair only
ClearNonLocal_DropFirst(sp) ==
  [sp EXCEPT !.non_local = IF @ = <<>> THEN <<>> ELSE Tail(@)]

\* a variant of ClearNonLocal that also forgets the full rows
ClearNonLocal_FullRowsToo(sp) == [sp EXCEPT !.non_local = <<>>, !.full_rows = {}]

\* line 561
ClearNonLocal(sp) == [sp EXCEPT !.non_local = <<>>]

(***************************************************************************)
(* The queries.                                                            *)
(***************************************************************************)
\* the full rows that are locally owned
OwnedFullRows(sp) == {r \in sp.full_rows : r < local_size0(sp)}

num_nonzeros(sp) ==
  SumSeq([i \in 1..Cardinality(DOMAIN sp.diagonal) |->
            Cardinality(sp.diagonal[i - 1])])
  + SumSeq([i \in 1..Cardinality(DOMAIN sp.off_diagonal) |->
              Cardinality(sp.off_diagonal[i - 1])])
  + Cardinality(OwnedFullRows(sp))
      * (block_size(sp.index_maps[2]) * size_global(sp.index_maps[2]))

num_nonzeros_diagonal(sp) ==
  [r \in DOMAIN sp.diagonal |->
     IF r \in OwnedFullRows(sp)
     THEN block_size(sp.index_maps[2]) * size_owned(sp.index_maps[2])
     ELSE Cardinality(sp.diagonal[r])]

\* a variant of num_nonzeros_off_diagonal that counts every global column for
\* a full row
num_nonzeros_off_diagonal_AllColumns(sp) ==
  [r \in DOMAIN sp.off_diagonal |->
     IF r \in OwnedFullRows(sp)
     THEN block_size(sp.index_maps[2]) * size_global(sp.index_maps[2])
     ELSE Cardinality(sp.off_diagonal[r])]

num_nonzeros_off_diagonal(sp) ==
  [r \in DOMAIN sp.off_diagonal |->
     IF r \in OwnedFullRows(sp)
     THEN block_size(sp.index_maps[2]) * size_global(sp.index_maps[2])
            - block_size(sp.index_maps[2]) * size_owned(sp.index_maps[2])
     ELSE Cardinality(sp.off_diagonal[r])]

num_local_nonzeros(sp) ==
  [r \in DOMAIN sp.diagonal |->
     num_nonzeros_diagonal(sp)[r] + num_nonzeros_off_diagonal(sp)[r]]

\* diagonal_pattern(Type::sorted).  asserted is FALSE when assert(v[row].size()
\* == 0) of line 612 fails, which aborts a build with assertions; v is what a
\* build without them returns.
diagonal_pattern(sp) ==
  [asserted |-> \A r \in OwnedFullRows(sp) : sp.diagonal[r] = {},
   v |-> [r \in DOMAIN sp.diagonal |->
            SortedSeq(sp.diagonal[r]) \o
              (IF r \in OwnedFullRows(sp)
               THEN Iota(sp_local_range(sp, 1)[1], sp_local_range(sp, 1)[2])
               ELSE <<>>)]]

\* off_diagonal_pattern(Type::sorted), with the assert of line 649
off_diagonal_pattern(sp) ==
  [asserted |-> \A r \in OwnedFullRows(sp) : sp.off_diagonal[r] = {},
   v |-> [r \in DOMAIN sp.off_diagonal |->
            SortedSeq(sp.off_diagonal[r]) \o
              (IF r \in OwnedFullRows(sp)
               THEN Iota(0, sp_local_range(sp, 1)[1]) \o
                    Iota(sp_local_range(sp, 1)[2],
                         block_size(sp.index_maps[2]) * size_global(sp.index_maps[2]))
               ELSE <<>>)]]

(***************************************************************************)
(* The state of a run: one SparsityPattern per rank of the communicator.   *)
(***************************************************************************)
VARIABLES
  mpi_size,   \* _mpi_comm.size()
  sp,         \* rank -> the SparsityPattern object of that rank
  pc,         \* rank -> "idle", "exchange" (inside apply(), blocked in
              \*         MPI::all_to_all) or "failed" (apply() threw)
  inflight,   \* source rank -> destination rank -> the buffers sent by the
              \*   all-to-all exchanges the destination has not yet completed
  ninserts,   \* number of insert_* calls made so far
  nmarks,     \* number of insert_full_rows_local calls made so far
  hist,       \* history: the (global row, global column) entries the calls
              \*   made so far stand for
  touched,    \* history: some rank inserted or marked after an apply() of its
              \*   own had returned
  napplied,   \* history: rank -> number of apply() calls that have returned:
              \*   0, 1, or 2 for "twice or more" (counted past 1 only while
              \*   not touched)
  grid,       \* block composer: <<block row, block column>> -> the
              \*   sub-pattern of this rank at that place of the grid
  merged,     \* block composer: the outcome of the merge constructor
  answer      \* what the latest query returned: [rank, query, result]

vars == <<mpi_size, sp, pc, inflight, ninserts, nmarks, hist, touched, napplied,
          grid, merged, answer>>

\* the block composer's part of the state, and the latest answer
mvars == <<grid, merged, answer>>

\* no query has been made
NoAnswer == [rank |-> 0, query |-> "none", result |-> <<>>]

\* no merge constructor has run
NotMerged ==
  [status |-> "none", ub |-> FALSE,
   sp |-> [index_maps |-> <<>>, diagonal |-> <<>>, off_diagonal |-> <<>>,
           full_rows |-> {}, non_local |-> <<>>]]

Procs == 0..(mpi_size - 1)

(***************************************************************************)
(* The arguments the calls are made with.                                  *)
(***************************************************************************)
\* a ghost row of the pattern, as a local row index: the first component of
\* the last ghost node
GhostRow(s) ==
  local_size0(s)
  + block_size(s.index_maps[1]) * (Len(ghosts(s.index_maps[1])) - 1)

\* rows arguments in local row indices: two owned rows in descending order,
\* and a single row, the ghost row when the row IndexMap has ghosts
LocalRowArgs(s) ==
  {<<local_size0(s) - 1, 0>>,
   IF Len(ghosts(s.index_maps[1])) > 0 THEN <<GhostRow(s)>> ELSE <<0>>}

\* rows arguments of insert_global: owned rows, as global element indices
GlobalRowArgs(s) ==
  {<<sp_local_range(s, 0)[2] - 1, sp_local_range(s, 0)[1]>>}
  \cup (IF Len(ghosts(s.index_maps[1])) > 0 THEN {}
        ELSE {<<sp_local_range(s, 0)[1]>>})

RowArgs(s, kind) == IF kind = "global" THEN GlobalRowArgs(s) ELSE LocalRowArgs(s)

\* a global column this rank owns, and another one (owned by another rank
\* when there is one)
OwnedCol(s) == sp_local_range(s, 1)[1]

OtherCol(s) ==
  IF local_range(s.index_maps[2])[1] > 0 THEN 0
  ELSE block_size(s.index_maps[2]) * size_global(s.index_maps[2]) - 1

\* cols arguments: global element indices, or (insert_local) local element
\* indices: the first owned one and the last one of the local numbering
ColArgs(s, kind) ==
  IF kind = "local"
  THEN {<<0>>,
        <<block_size(s.index_maps[2]) * size_all(s.index_maps[2]) - 1, 0>>}
  ELSE {<<OwnedCol(s)>>, <<OtherCol(s), OwnedCol(s)>>}

\* rows argument of insert_full_rows_local: the first owned row and, when
\* the row IndexMap has ghosts, a ghost row
FullRowArgs(s) ==
  {IF Len(ghosts(s.index_maps[1])) > 0 THEN <<0, GhostRow(s)>> ELSE <<0>>}

(***************************************************************************)
(* What a call stands for: the global element indices of a row and of a    *)
(* column given in the convention of the call (history only).              *)
(***************************************************************************)
GlobalRowOf(s, kind, i) ==
  IF kind = "global" THEN i
  ELSE IF i < local_size0(s) THEN i + sp_local_range(s, 0)[1]
  ELSE block_size(s.index_maps[1])
         * local_to_global(s.index_maps[1], i \div block_size(s.index_maps[1]))
       + (i % block_size(s.index_maps[1]))

GlobalColOf(s, kind, j) ==
  IF kind = "local"
  THEN block_size(s.index_maps[2])
         * local_to_global(s.index_maps[2], j \div block_size(s.index_maps[2]))
       + (j % block_size(s.index_maps[2]))
  ELSE j

EntriesOf(s, kind, rows, cols) ==
  {<<GlobalRowOf(s, kind, rows[i]), GlobalColOf(s, kind, cols[j])>> :
     i \in DOMAIN rows, j \in DOMAIN cols}

(***************************************************************************)
(* Init: fresh patterns on every rank of a communicator of one or two      *)
(* ranks, the IndexMaps having a block size in BlockSizes.               *)
(***************************************************************************)
Init ==
  /\ mpi_size \in {1, 2}
  /\ \E b \in BlockSizes :
       sp = [p \in Procs |->
               NewPattern(RowIndexMap(mpi_size, b, p), ColIndexMap(mpi_size, b, p))]
  /\ pc = [p \in Procs |-> "idle"]
  /\ inflight = [q \in Procs |-> [p \in Procs |-> <<>>]]
  /\ ninserts = 0
  /\ nmarks = 0
  /\ hist = {}
  /\ touched = FALSE
  /\ napplied = [p \in Procs |-> 0]
  /\ grid = <<>>
  /\ merged = NotMerged
  /\ answer = NoAnswer

\* the history of a call that changes the pattern of rank p
Touch(p) ==
  /\ touched' = (touched \/ napplied[p] > 0)
  /\ napplied' = IF touched \/ napplied[p] > 0
                 THEN [q \in Procs |-> IF napplied[q] > 0 THEN 1 ELSE 0]
                 ELSE napplied

\* the history of an apply() of rank p returning
Returned(p) ==
  /\ touched' = touched
  /\ napplied' = [napplied EXCEPT ![p] = IF @ = 0 \/ touched THEN 1 ELSE 2]

\* insert_global, insert_local, insert_local_global on rank p
Insert(p, kind, rows, cols) ==
  /\ pc[p] = "idle"
  /\ ninserts < MaxInserts
  /\ sp' = [sp EXCEPT ![p] = insert_entries(sp[p], mpi_size, kind, rows, cols)]
  /\ ninserts' = ninserts + 1
  /\ hist' = hist \cup EntriesOf(sp[p], kind, rows, cols)
  /\ Touch(p)
  /\ UNCHANGED <<mpi_size, pc, inflight, nmarks, mvars>>

\* insert_full_rows_local on rank p
MarkFull(p, rows) ==
  /\ pc[p] = "idle"
  /\ nmarks < MaxMarks
  /\ sp' = [sp EXCEPT ![p] = insert_full_rows_local(sp[p], rows)]
  /\ nmarks' = nmarks + 1
  /\ Touch(p)
  /\ UNCHANGED <<mpi_size, pc, inflight, ninserts, hist, mvars>>

\* apply() on the only rank of a communicator of size 1
Apply(p) ==
  /\ mpi_size = 1
  /\ pc[p] = "idle"
  /\ sp' = [sp EXCEPT ![p] = ClearNonLocal(sp[p])]
  /\ Returned(p)
  /\ UNCHANGED <<mpi_size, pc, inflight, ninserts, nmarks, hist, mvars>>

\* apply() on rank p of a larger communicator, up to the exchange: the
\* buffered pairs are bucketed by owner and handed to MPI::all_to_all
ApplySend(p) ==
  /\ mpi_size > 1
  /\ pc[p] = "idle"
  /\ pc' = [pc EXCEPT ![p] = "exchange"]
  /\ inflight' = [inflight EXCEPT ![p] =
                    [q \in Procs |-> Append(inflight[p][q], non_local_send(sp[p], q, 1))]]
  /\ UNCHANGED <<mpi_size, sp, ninserts, nmarks, hist, touched, napplied, mvars>>

\* MPI::all_to_all: what rank p receives, the buffers in rank order
RECURSIVE non_local_received(_, _)
non_local_received(p, q) ==
  IF q >= mpi_size THEN <<>>
  ELSE Head(inflight[q][p]) \o non_local_received(p, q + 1)

\* how apply() ends once a received pair indexes outside the storage: the
\* assertion of line 549 / 554 stops a build with assertions; a build without
\* them writes out of bounds, and crashes or goes on and returns
UndefinedOutcomes == {"aborted", "crashed", "idle"}

\* a variant of Exchanged in which the exchange hands nothing back and the
\* rank stays in it
Exchanged_Stuck(p, received) == pc' = pc /\ sp' = sp

\* lines 523-561 on rank p, for the pairs the exchange delivered: the pairs
\* are inserted, and the buffer is cleared unless apply() does not return
Exchanged(p, received) ==
  IF InsertAllReceived(sp[p], received, 1).thrown
  THEN /\ sp' = [sp EXCEPT ![p] = InsertAllReceived(sp[p], received, 1).sp]
       /\ pc' = [pc EXCEPT ![p] = "failed"]
  ELSE IF InsertAllReceived(sp[p], received, 1).ub
  THEN \E outcome \in UndefinedOutcomes :
         /\ pc' = [pc EXCEPT ![p] = outcome]
         /\ sp' = [sp EXCEPT ![p] =
                     IF outcome = "idle"
                     THEN ClearNonLocal(InsertAllReceived(sp[p], received, 1).sp)
                     ELSE InsertAllReceived(sp[p], received, 1).sp]
  ELSE /\ sp' = [sp EXCEPT ![p] =
                   ClearNonLocal(InsertAllReceived(sp[p], received, 1).sp)]
       /\ pc' = [pc EXCEPT ![p] = "idle"]

\* the exchange of rank p completes once every rank has entered it; the
\* received pairs are inserted and the buffer is cleared
ApplyRecv(p) ==
  /\ pc[p] = "exchange"
  /\ \A q \in Procs : inflight[q][p] # <<>>
  /\ inflight' = [q \in Procs |->
                    [inflight[q] EXCEPT ![p] = Tail(inflight[q][p])]]
  /\ Exchanged(p, non_local_received(p, 0))
  /\ IF pc'[p] = "idle"
     THEN Returned(p)
     ELSE UNCHANGED <<touched, napplied>>
  /\ UNCHANGED <<mpi_size, ninserts, nmarks, hist, mvars>>

Next ==
  \/ \E p \in Procs, kind \in Kinds :
       \E rows \in RowArgs(sp[p], kind), cols \in ColArgs(sp[p], kind) :
         Insert(p, kind, rows, cols)
  \/ \E p \in Procs : \E rows \in FullRowArgs(sp[p]) : MarkFull(p, rows)
  \/ \E p \in Procs : Apply(p)
  \/ \E p \in Procs : ApplySend(p)
  \/ \E p \in Procs : ApplyRecv(p)

Spec == Init /\ [][Next]_vars

(***************************************************************************)
(* What the claims speak of.                                               *)
(***************************************************************************)
\* the (global row, global column) entries held in the sets of rank p
Held(p) ==
  UNION {{<<r + sp_local_range(sp[p], 0)[1], c>> :
            c \in sp[p].diagonal[r] \cup sp[p].off_diagonal[r]} :
         r \in DOMAIN sp[p].diagonal}

\* every rank is outside apply(), has returned from one, and has nothing buffered
AllApplied ==
  \A p \in Procs :
    pc[p] = "idle" /\ napplied[p] >= 1 /\ sp[p].non_local = <<>>

\* the step is the return of an apply() of rank p
ApplyReturns(p) ==
  \/ pc[p] = "exchange" /\ pc'[p] = "idle"
  \/ mpi_size = 1 /\ ninserts' = ninserts /\ nmarks' = nmarks

\* the step belongs to an apply() of some rank
ApplyStep == ninserts' = ninserts /\ nmarks' = nmarks

\* the owned columns and the other columns of rank p, ascending
OwnedColumns(p) ==
  SortedSeq({c \in 0..(block_size(sp[p].index_maps[2])
                       * size_global(sp[p].index_maps[2]) - 1) :
               InLocalRange1(sp[p], c)})

UnownedColumns(p) ==
  SortedSeq({c \in 0..(block_size(sp[p].index_maps[2])
                       * size_global(sp[p].index_maps[2]) - 1) :
               ~InLocalRange1(sp[p], c)})

(***************************************************************************)
(* C1.  On a single process with no full rows, after any sequence of       *)
(* insert_* calls num_nonzeros() is the number of distinct (row, column)   *)
(* pairs inserted, and diagonal_pattern(sorted)[r] is the ascending list   *)
(* of the distinct columns inserted for r.                                 *)
(***************************************************************************)
C1_SerialPattern ==
  (mpi_size = 1 /\ sp[0].full_rows = {}) =>
    /\ num_nonzeros(sp[0]) = Cardinality(hist)
    /\ \A r \in DOMAIN sp[0].diagonal :
         diagonal_pattern(sp[0]).v[r] = SortedSeq({e[2] : e \in {x \in hist : x[1] = r}})

C1_Witness ==
  /\ mpi_size = 1
  /\ sp[0].full_rows = {}
  /\ ninserts = 2
  /\ Cardinality(hist) = 4
  /\ Len(diagonal_pattern(sp[0]).v[0]) = 2

(***************************************************************************)
(* C2.  With more than one process, once every process has called apply(), *)
(* the union over the processes of the (global row, global column) entries *)
(* held in their diagonal and off-diagonal sets is the set of entries a    *)
(* single-process run over the same insertions holds: none lost, none      *)
(* duplicated.  (Stated for runs without full rows.)                       *)
(***************************************************************************)
C2_ExchangePreservesEntries ==
  (mpi_size > 1 /\ AllApplied /\ \A p \in Procs : sp[p].full_rows = {}) =>
    /\ UNION {Held(p) : p \in Procs} = hist
    /\ SumSeq([i \in 1..mpi_size |-> num_nonzeros(sp[i - 1])]) = Cardinality(hist)

(***************************************************************************)
(* C3.  Once local row r is marked full, every later insertion targeting r *)
(* is skipped: an insertion call leaves the empty explicit sets of a full  *)
(* row empty.                                                              *)
(***************************************************************************)
C3_FullRowInsertSkipped ==
  [][\A p \in Procs : \A r \in DOMAIN sp[p].diagonal :
       (/\ ninserts' # ninserts
        /\ r \in sp[p].full_rows
        /\ sp[p].diagonal[r] = {}
        /\ sp[p].off_diagonal[r] = {})
       => (sp'[p].diagonal[r] = {} /\ sp'[p].off_diagonal[r] = {})]_vars

(***************************************************************************)
(* C4.  For a locally owned full row r with no explicit insertions, the    *)
(* diagonal count is the number of owned columns, the off-diagonal count   *)
(* is the number of global columns minus the owned ones, diagonal_pattern  *)
(* [r] is the owned column range ascending and off_diagonal_pattern[r] is  *)
(* its complement in the global column range, ascending.                   *)
(***************************************************************************)
C4_FullRowSynthesized ==
  \A p \in Procs : \A r \in OwnedFullRows(sp[p]) :
    (sp[p].diagonal[r] = {} /\ sp[p].off_diagonal[r] = {}) =>
      /\ num_nonzeros_diagonal(sp[p])[r] = Len(OwnedColumns(p))
      /\ num_nonzeros_off_diagonal(sp[p])[r] = Len(UnownedColumns(p))
      /\ num_nonzeros_diagonal(sp[p])[r] + num_nonzeros_off_diagonal(sp[p])[r]
           = block_size(sp[p].index_maps[2]) * size_global(sp[p].index_maps[2])
      /\ diagonal_pattern(sp[p]).v[r] = OwnedColumns(p)
      /\ off_diagonal_pattern(sp[p]).v[r] = UnownedColumns(p)

C4_Witness ==
  /\ mpi_size = 2
  /\ 0 \in OwnedFullRows(sp[1])
  /\ sp[1].diagonal[0] = {} /\ sp[1].off_diagonal[0] = {}
  /\ num_nonzeros_off_diagonal(sp[1])[0] > 0
  /\ hist # {}

(***************************************************************************)
(* C5.  Full-row marking is retroactive: for every locally owned full row  *)
(* r, also one that got columns before it was marked, diagonal_pattern[r]  *)
(* and off_diagonal_pattern[r] are exactly the synthesized ranges, each    *)
(* column once.                                                            *)
(***************************************************************************)
C5_FullRowRetroactive ==
  \A p \in Procs : \A r \in OwnedFullRows(sp[p]) :
    /\ diagonal_pattern(sp[p]).asserted
    /\ off_diagonal_pattern(sp[p]).asserted
    /\ diagonal_pattern(sp[p]).v[r] = OwnedColumns(p)
    /\ off_diagonal_pattern(sp[p]).v[r] = UnownedColumns(p)

(***************************************************************************)
(* C6.  After apply(), an entry of a locally owned row is represented in   *)
(* exactly one of the diagonal set, the off-diagonal set or the implied    *)
(* membership of a full row.  The instance the claim singles out: apply()  *)
(* does not store a received entry in the explicit sets of a row its owner *)
(* has marked full.                                                        *)
(***************************************************************************)
C6_ReceivedNotStoredInFullRow ==
  [][\A p \in Procs : \A r \in OwnedFullRows(sp[p]) :
       (pc[p] = "exchange" /\ pc'[p] = "idle")
       => /\ sp'[p].diagonal[r] = sp[p].diagonal[r]
          /\ sp'[p].off_diagonal[r] = sp[p].off_diagonal[r]]_vars

(***************************************************************************)
(* C7.  Whenever apply() returns normally, the non-local buffer of that    *)
(* process is empty.                                                       *)
(***************************************************************************)
C7_BufferEmptyOnReturn ==
  [][\A p \in Procs : ApplyReturns(p) => sp'[p].non_local = <<>>]_vars

C7_Witness ==
  /\ mpi_size = 2
  /\ napplied[0] = 1 /\ pc[0] = "idle" /\ sp[0].non_local = <<>>
  /\ pc[1] = "exchange"
  /\ Len(inflight[0][1]) = 1 /\ Head(inflight[0][1]) # <<>>

(***************************************************************************)
(* C8.  A second apply() on every process, with no insertion in between,   *)
(* is a no-op: once every process has returned from an apply() and none    *)
(* has inserted or marked since its own return, the steps of further       *)
(* apply() calls leave every pattern as it is, the buffers being empty.    *)
(***************************************************************************)
C8_SecondApplyNoOp ==
  [][(/\ ~touched
      /\ \A p \in Procs : napplied[p] >= 1
      /\ ApplyStep)
     => /\ sp' = sp
        /\ \A p \in Procs : sp[p].non_local = <<>>]_vars

C8_Witness ==
  /\ mpi_size = 2
  /\ \A p \in Procs : napplied[p] = 2 /\ pc[p] = "idle"
  /\ sp[1].diagonal[0] \cup sp[1].off_diagonal[0] # {}
  /\ sp[0].diagonal[0] \cup sp[0].off_diagonal[0] # {}


(***************************************************************************)
(* The block composer, SparsityPattern(comm, patterns): the grid of        *)
(* sub-patterns it is given.                                               *)
(***************************************************************************)
BlockRows == {0, 1}

BlockCols == {0, 1}

\* the IndexMap of the rows of block row i, as held by the last rank of a
\* communicator of np ranks: block row i owns i + 1 nodes
BlockRowIndexMap(np, b, i) ==
  IF np = 1
  THEN [bs |-> b, range |-> <<0, i + 1>>, ghosts |-> <<>>, owners |-> <<>>,
        N |-> i + 1]
  ELSE [bs |-> b, range |-> <<1, i + 2>>, ghosts |-> <<0>>, owners |-> <<0>>,
        N |-> i + 2]

\* the IndexMap of the columns of block column j: it owns 2 - j nodes
BlockColIndexMap(np, b, j) ==
  IF np = 1
  THEN [bs |-> b, range |-> <<0, 2 - j>>, ghosts |-> <<>>, owners |-> <<>>,
        N |-> 2 - j]
  ELSE [bs |-> b, range |-> <<1, 3 - j>>, ghosts |-> <<0>>, owners |-> <<0>>,
        N |-> 3 - j]

\* which IndexMaps the caller built each block with: block <<i, j>> with the
\* maps of block row i and block column j, or one block with the row map of
\* the other block row, or one block with the column map of the other block
\* column
GridLayouts ==
  {[c \in BlockRows \X BlockCols |-> c],
   [c \in BlockRows \X BlockCols |-> IF c = <<0, 1>> THEN <<1, 1>> ELSE c],
   [c \in BlockRows \X BlockCols |-> IF c = <<1, 0>> THEN <<1, 1>> ELSE c]}

\* lines 80-81: the row count the composer takes for block row `row`
row_size(g, row) == size_owned(g[<<row, 0>>].index_maps[1])

\* lines 72, 147: row_local_offset when block row `row` is entered
RECURSIVE row_local_offset(_, _)
row_local_offset(g, row) ==
  IF row = 0 THEN 0 ELSE row_local_offset(g, row - 1) + row_size(g, row - 1)

\* lines 83, 87: the size of this->_diagonal while block row `row` is processed
DiagonalSize(g, row) == row_local_offset(g, row) + row_size(g, row)

\* lines 82, 86: the assertions on the storage of the first block of the row
AssertFails(g, np, row) ==
  \/ row_size(g, row) # Cardinality(DOMAIN g[<<row, 0>>].diagonal)
  \/ /\ np > 1
     /\ row_size(g, row) # Cardinality(DOMAIN g[<<row, 0>>].off_diagonal)

\* lines 56-61: the column IndexMaps of the first block row
cmaps(g) == [col \in BlockCols |-> g[<<0, col>>].index_maps[2]]

\* lines 43-52: of the first block of each block row
row_global_offset(g) ==
  SumSeq([i \in 1..Cardinality(BlockRows) |->
            local_range(g[<<i - 1, 0>>].index_maps[1])[1]])

row_local_size(g) ==
  SumSeq([i \in 1..Cardinality(BlockRows) |->
            local_range(g[<<i - 1, 0>>].index_maps[1])[2]
            - local_range(g[<<i - 1, 0>>].index_maps[1])[1]])

\* lines 54-65: of the blocks of the first block row
col_process_offset(g) ==
  SumSeq([j \in 1..Cardinality(BlockCols) |->
            local_range(g[<<0, j - 1>>].index_maps[2])[1]])

col_local_size(g) ==
  SumSeq([j \in 1..Cardinality(BlockCols) |->
            local_range(g[<<0, j - 1>>].index_maps[2])[2]
            - local_range(g[<<0, j - 1>>].index_maps[2])[1]])


(***************************************************************************)
(* fem::get_global_index and the IndexMap constructor, external            *)
(* collaborators of the block composer.                                    *)
(***************************************************************************)
\* the first node of each rank and the number of nodes, for an IndexMap of a
\* communicator of one or two ranks
all_ranges(im, np) ==
  IF np = 1 THEN <<0, im.N>>
  ELSE IF im.range[1] = 0 THEN <<0, im.range[2], im.N>>
  ELSE <<0, im.range[1], im.N>>

\* the rank that owns global node `node`
owner(im, np, node) ==
  IF np > 1 /\ node >= all_ranges(im, np)[2] THEN 1 ELSE 0

\* the index of element n of field `field` in the numbering of the composite:
\* the elements of the lower ranks of every other field come first, then the
\* elements the owner holds of the fields before `field`
get_global_index(maps, np, field, n) ==
  n
  + SumSeq([j \in 1..Cardinality(DOMAIN maps) |->
              IF j - 1 = field THEN 0
              ELSE block_size(maps[j - 1])
                   * all_ranges(maps[j - 1], np)
                       [owner(maps[field], np, n \div block_size(maps[field])) + 1]])
  + SumSeq([j \in 1..field |->
              block_size(maps[j - 1])
              * (all_ranges(maps[j - 1], np)
                   [owner(maps[field], np, n \div block_size(maps[field])) + 2]
                 - all_ranges(maps[j - 1], np)
                   [owner(maps[field], np, n \div block_size(maps[field])) + 1])])

\* IndexMap(comm, local_size, ghosts = {}, block_size = 1) on a rank whose
\* lower ranks hold `offset` nodes, of `global` nodes over all ranks
CompositeIndexMap(offset, local_size, global) ==
  [bs |-> 1, range |-> <<offset, offset + local_size>>, ghosts |-> <<>>,
   owners |-> <<>>, N |-> global]

(***************************************************************************)
(* The block composer: the main loop, lines 71-148.                        *)
(***************************************************************************)
\* a variant of NotFinalised that lets every sub-pattern through
NotFinalised_Never(p) == FALSE

\* line 99: the sub-pattern has not been finalised
NotFinalised(p) == p.non_local # <<>>

\* lines 105-120: the <<composite row, composite column>> insertions block
\* <<row, col>> makes in this->_diagonal
DiagonalWrites(g, np, row, col) ==
  UNION {{<<k + row_local_offset(g, row),
            get_global_index(cmaps(g), np, col, c)>> :
            c \in g[<<row, col>>].diagonal[k]} :
         k \in DOMAIN g[<<row, col>>].diagonal}

\* lines 123-131: the same in this->_off_diagonal, when distributed
OffDiagonalWrites(g, np, row, col) ==
  IF np > 1
  THEN UNION {{<<k + row_local_offset(g, row),
                 get_global_index(cmaps(g), np, col, c)>> :
                 c \in g[<<row, col>>].off_diagonal[k]} :
              k \in DOMAIN g[<<row, col>>].off_diagonal}
  ELSE {}

\* lines 119, 130: an insertion of block <<row, col>> indexes the storage past
\* its end (undefined behaviour)
OutOfBounds(g, np, row, col) ==
  \E w \in DiagonalWrites(g, np, row, col) \cup OffDiagonalWrites(g, np, row, col) :
    w[1] >= DiagonalSize(g, row)

\* lines 74-148, from block number b on (blocks are numbered row by row):
\* how the constructor ends. ndebug: the build drops the assertions; crash:
\* the build stops at an out-of-bounds insertion
RECURSIVE MergeScan(_, _, _, _, _)
MergeScan(g, np, ndebug, crash, b) ==
  IF b = Cardinality(BlockRows) * Cardinality(BlockCols) THEN "ok"
  ELSE IF /\ b % Cardinality(BlockCols) = 0
          /\ ~ndebug
          /\ AssertFails(g, np, b \div Cardinality(BlockCols))
  THEN "aborted"
  ELSE IF NotFinalised(g[<<b \div Cardinality(BlockCols), b % Cardinality(BlockCols)>>])
  THEN "thrown"
  ELSE IF /\ crash
          /\ OutOfBounds(g, np, b \div Cardinality(BlockCols),
                         b % Cardinality(BlockCols))
  THEN "crashed"
  ELSE MergeScan(g, np, ndebug, crash, b + 1)

\* the insertions of all blocks that fall inside the storage
AllDiagonalWrites(g, np) ==
  UNION {{w \in DiagonalWrites(g, np, c[1], c[2]) : w[1] < DiagonalSize(g, c[1])} :
         c \in BlockRows \X BlockCols}

AllOffDiagonalWrites(g, np) ==
  UNION {{w \in OffDiagonalWrites(g, np, c[1], c[2]) : w[1] < DiagonalSize(g, c[1])} :
         c \in BlockRows \X BlockCols}

\* the composite when the constructor returns: lines 83, 87 size its storage
\* (the off-diagonal one only when distributed), lines 152-159 build its
\* IndexMaps; _full_rows and _non_local are left empty
Composite(g, np) ==
  [index_maps   |->
     <<CompositeIndexMap(row_global_offset(g), row_local_size(g),
                         SumSeq([i \in 1..Cardinality(BlockRows) |->
                                   size_global(g[<<i - 1, 0>>].index_maps[1])])),
       CompositeIndexMap(col_process_offset(g), col_local_size(g),
                         SumSeq([j \in 1..Cardinality(BlockCols) |->
                                   size_global(g[<<0, j - 1>>].index_maps[2])]))>>,
   diagonal     |->
     [r \in 0..(row_local_offset(g, Cardinality(BlockRows)) - 1) |->
        {w[2] : w \in {x \in AllDiagonalWrites(g, np) : x[1] = r}}],
   off_diagonal |->
     IF np > 1
     THEN [r \in 0..(row_local_offset(g, Cardinality(BlockRows)) - 1) |->
             {w[2] : w \in {x \in AllOffDiagonalWrites(g, np) : x[1] = r}}]
     ELSE <<>>,
   full_rows    |-> {},
   non_local    |-> <<>>]

\* no composite: the constructor did not return
NoComposite ==
  [index_maps |-> <<>>, diagonal |-> <<>>, off_diagonal |-> <<>>,
   full_rows |-> {}, non_local |-> <<>>]

\* SparsityPattern(comm, patterns): status "ok" with the composite, ub telling
\* that an insertion went out of bounds on the way (the content of the
\* composite is then whatever the build made of it); or "thrown", "aborted",
\* "crashed" without a composite
merge(g, np, ndebug, crash) ==
  IF MergeScan(g, np, ndebug, crash, 0) = "ok"
  THEN [status |-> "ok",
        ub     |-> \E c \in BlockRows \X BlockCols : OutOfBounds(g, np, c[1], c[2]),
        sp     |-> Composite(g, np)]
  ELSE [status |-> MergeScan(g, np, ndebug, crash, 0), ub |-> FALSE,
        sp     |-> NoComposite]


(***************************************************************************)
(* The block composer's specification: one rank (the last of the           *)
(* communicator) builds the sub-patterns of a 2 x 2 grid and hands them to *)
(* the merge constructor.                                                  *)
(***************************************************************************)
\* the sub-patterns are filled through insert_local_global
MergeKinds == {"local_global"}

InitMerge ==
  /\ mpi_size \in {1, 2}
  /\ \E b \in BlockSizes, layout \in GridLayouts :
       grid = [c \in BlockRows \X BlockCols |->
                 NewPattern(BlockRowIndexMap(mpi_size, b, layout[c][1]),
                            BlockColIndexMap(mpi_size, b, layout[c][2]))]
  /\ merged = NotMerged
  /\ answer = NoAnswer
  /\ ninserts = 0
  /\ nmarks = 0
  /\ sp = <<>>
  /\ pc = <<>>
  /\ inflight = <<>>
  /\ hist = {}
  /\ touched = FALSE
  /\ napplied = <<>>

\* an insert call on the sub-pattern of block c
BlockInsert(c, kind, rows, cols) ==
  /\ merged.status = "none"
  /\ ninserts < MaxInserts
  /\ grid' = [grid EXCEPT ![c] = insert_entries(@, mpi_size, kind, rows, cols)]
  /\ ninserts' = ninserts + 1
  /\ UNCHANGED <<mpi_size, sp, pc, inflight, nmarks, hist, touched, napplied, merged, answer>>

\* insert_full_rows_local on the sub-pattern of block c
BlockMarkFull(c, rows) ==
  /\ merged.status = "none"
  /\ nmarks < MaxMarks
  /\ grid' = [grid EXCEPT ![c] = insert_full_rows_local(@, rows)]
  /\ nmarks' = nmarks + 1
  /\ UNCHANGED <<mpi_size, sp, pc, inflight, ninserts, hist, touched, napplied, merged, answer>>

\* apply() on the sub-pattern of block c, the other ranks sending nothing
BlockApply(c) ==
  /\ merged.status = "none"
  /\ grid' = [grid EXCEPT ![c] = ClearNonLocal(InsertAllReceived(@, <<>>, 1).sp)]
  /\ UNCHANGED <<mpi_size, sp, pc, inflight, ninserts, nmarks, hist, touched,
                 napplied, merged, answer>>

\* SparsityPattern(comm, patterns) on the grid, in a build with or without
\* assertions, that stops or goes on at an out-of-bounds insertion
Merge ==
  /\ merged.status = "none"
  /\ \E ndebug \in BOOLEAN, crash \in BOOLEAN :
       merged' = merge(grid, mpi_size, ndebug, crash)
  /\ UNCHANGED <<mpi_size, sp, pc, inflight, ninserts, nmarks, hist, touched,
                 napplied, grid, answer>>

NextMerge ==
  \/ \E c \in BlockRows \X BlockCols, kind \in MergeKinds :
       \E rows \in LocalRowArgs(grid[c]), cols \in ColArgs(grid[c], kind) :
         BlockInsert(c, kind, rows, cols)
  \/ \E c \in BlockRows \X BlockCols :
       \E rows \in FullRowArgs(grid[c]) : BlockMarkFull(c, rows)
  \/ \E c \in BlockRows \X BlockCols : BlockApply(c)
  \/ Merge

SpecMerge == InitMerge /\ [][NextMerge]_vars


(***************************************************************************)
(* What the claims on the block composer speak of.                         *)
(***************************************************************************)
\* the merge constructor has been called
MergeCalled == merged.status # "none"

\* some sub-pattern of the grid still holds buffered non-local entries
SomeNotFinalised == \E c \in BlockRows \X BlockCols : grid[c].non_local # <<>>

\* the blocks of a block row do not share one row IndexMap, or the blocks of
\* a block column do not share one column IndexMap
MismatchedIndexMaps ==
  \E c \in BlockRows \X BlockCols :
    \/ grid[c].index_maps[1] # grid[<<c[1], 0>>].index_maps[1]
    \/ grid[c].index_maps[2] # grid[<<0, c[2]>>].index_maps[2]

\* C9: when a sub-pattern handed to the merge constructor still has a
\* non-empty non-local buffer, the constructor does not return a composite,
\* not even one made of the blocks processed before the offending one: it
\* ends by the exception, unless it was stopped before reaching the
\* offending block by a failed assertion or an out-of-bounds insertion; with
\* block size 1 and matching IndexMaps nothing else can stop it and it ends
\* by the exception.
C9_UnfinalisedRejected ==
  (MergeCalled /\ SomeNotFinalised)
    => /\ merged.status \in {"thrown", "aborted", "crashed"}
       /\ merged.sp = NoComposite
       /\ merged.status = "aborted"
            => \E row \in BlockRows : AssertFails(grid, mpi_size, row)
       /\ merged.status = "crashed"
            => \E c \in BlockRows \X BlockCols :
                 OutOfBounds(grid, mpi_size, c[1], c[2])

\* C9 witness: the constructor threw on a grid whose last block is the only
\* one not finalised, after blocks with entries had been processed
C9_Witness ==
  /\ merged.status = "thrown"
  /\ grid[<<1, 1>>].non_local # <<>>
  /\ \A c \in (BlockRows \X BlockCols) \ {<<1, 1>>} : grid[c].non_local = <<>>
  /\ \E k \in DOMAIN grid[<<0, 0>>].diagonal : grid[<<0, 0>>].diagonal[k] # {}

\* C10: a grid in which two sub-patterns of one block row have different row
\* IndexMaps, or two of one block column different column IndexMaps, is
\* never composed: the merge constructor does not return a composite for it.
C10_MismatchNeverComposed ==
  (MergeCalled /\ MismatchedIndexMaps) => merged.status # "ok"


\* the number of rows and of columns of the sub-pattern of block c, in elements
BlockNumRows(c) == Cardinality(DOMAIN grid[c].diagonal)

BlockNumCols(c) ==
  block_size(grid[c].index_maps[2]) * size_owned(grid[c].index_maps[2])

\* what the composite of a 2 x 2 grid of single-process patterns holds in row
\* k of block row i: the columns of block <<i, 0>> row k, and those of block
\* <<i, 1>> row k shifted by the number of columns of block column 0
ExpectedCompositeRow(i, k) ==
  grid[<<i, 0>>].diagonal[k]
    \cup {c + BlockNumCols(<<0, 0>>) : c \in grid[<<i, 1>>].diagonal[k]}

\* C11: composing a 2 x 2 grid of single-process patterns of sizes (m1,n1),
\* (m1,n2) / (m2,n1), (m2,n2) returns a pattern of m1 + m2 rows and n1 + n2
\* columns whose row k < m1 holds block (0,0) row k's columns united with
\* block (0,1) row k's columns shifted by n1, and whose row m1 + k holds the
\* same of blocks (1,0) and (1,1).
C11_ComposedGrid ==
  (MergeCalled /\ mpi_size = 1 /\ ~MismatchedIndexMaps) =>
    /\ merged.status = "ok"
    /\ ~merged.ub
    /\ Cardinality(DOMAIN merged.sp.diagonal)
         = BlockNumRows(<<0, 0>>) + BlockNumRows(<<1, 0>>)
    /\ block_size(merged.sp.index_maps[2]) * size_global(merged.sp.index_maps[2])
         = BlockNumCols(<<0, 0>>) + BlockNumCols(<<0, 1>>)
    /\ \A k \in DOMAIN grid[<<0, 0>>].diagonal :
         merged.sp.diagonal[k] = ExpectedCompositeRow(0, k)
    /\ \A k \in DOMAIN grid[<<1, 0>>].diagonal :
         merged.sp.diagonal[BlockNumRows(<<0, 0>>) + k] = ExpectedCompositeRow(1, k)


(***************************************************************************)
(* apply() against ranks whose row IndexMaps disagree: a rank may be sent  *)
(* a pair for a row it does not own (a ghost that the sender's IndexMap    *)
(* attributes to the wrong owner).                                         *)
(***************************************************************************)
\* rows the pattern s does not own: the last element below its owned range
\* and the first element above it
StrayRows(s) ==
  {I \in {sp_local_range(s, 0)[1] - 1, sp_local_range(s, 0)[2]} : I >= 0}

\* apply() on rank q up to the exchange, its buffer holding one more pair,
\* for row I, that its IndexMap sends to rank p
ApplySendStray(q, p, I) ==
  /\ mpi_size > 1
  /\ pc[q] = "idle"
  /\ p # q
  /\ pc' = [pc EXCEPT ![q] = "exchange"]
  /\ inflight' = [inflight EXCEPT ![q] =
                    [r \in Procs |->
                       Append(inflight[q][r],
                              IF r = p
                              THEN Append(non_local_send(sp[q], r, 1),
                                          <<I, OwnedCol(sp[p])>>)
                              ELSE non_local_send(sp[q], r, 1))]]
  /\ UNCHANGED <<mpi_size, sp, ninserts, nmarks, hist, touched, napplied, mvars>>

InitRecv == mpi_size = 2 /\ Init

NextRecv ==
  \/ \E p \in Procs, kind \in Kinds :
       \E rows \in RowArgs(sp[p], kind), cols \in ColArgs(sp[p], kind) :
         Insert(p, kind, rows, cols)
  \/ \E p \in Procs : \E rows \in FullRowArgs(sp[p]) : MarkFull(p, rows)
  \/ \E p \in Procs : ApplySend(p)
  \/ \E q \in Procs, p \in Procs : \E I \in StrayRows(sp[p]) : ApplySendStray(q, p, I)
  \/ \E p \in Procs : ApplyRecv(p)

SpecRecv == InitRecv /\ [][NextRecv]_vars

\* the step is the end of the exchange of an apply() of rank p
ExchangeEnds(p) == pc[p] = "exchange" /\ pc'[p] # "exchange"

\* a pair received by rank p in this exchange has a row outside the owned row
\* range of p, in element units
ReceivesForeignRow(p) ==
  \E i \in 1..Len(non_local_received(p, 0)) :
    \/ non_local_received(p, 0)[i][1] < sp_local_range(sp[p], 0)[1]
    \/ non_local_received(p, 0)[i][1] >= sp_local_range(sp[p], 0)[2]

\* C12: whenever the exchange of an apply() delivers a pair whose row is
\* outside [block size x range start, block size x range end) of the
\* receiving rank, that apply() fails with the error, for every block size.
C12_ForeignRowRejected ==
  [][\A p \in Procs :
       (ExchangeEnds(p) /\ ReceivesForeignRow(p)) => pc'[p] = "failed"]_vars


(***************************************************************************)
(* insert_global called with rows outside the owned row range.             *)
(***************************************************************************)
\* the assertion a row index meets in insert_entries: line 263 in sequential
\* mode, the one of insert_global's row_map (lines 170-171) in parallel mode
RowAsserted(s, np, i_index) ==
  IF np = 1
  THEN i_index < Cardinality(DOMAIN s.diagonal)
  ELSE /\ sp_local_range(s, 0)[1] <= i_index
       /\ i_index < sp_local_range(s, 0)[2]

\* the rows of the call that are processed before an assertion fails
RECURSIVE RowsBeforeAssert(_, _, _)
RowsBeforeAssert(s, np, rows) ==
  IF rows = <<>> \/ ~RowAsserted(s, np, Head(rows)) THEN <<>>
  ELSE <<Head(rows)>> \o RowsBeforeAssert(s, np, Tail(rows))

\* lines 266, 296, 301 in a build without assertions: a row of the call
\* indexes _diagonal / _off_diagonal outside the storage (undefined behaviour)
InsertOutOfBounds(s, np, rows) ==
  \E i \in 1..Len(rows) :
    IF np = 1
    THEN rows[i] >= Cardinality(DOMAIN s.diagonal)
    ELSE row_map("global", rows[i], s.index_maps[1]) < 0

\* rows arguments of insert_global with a row this rank does not own: the
\* first element above the owned range, alone and after an owned row, and the
\* last element below the owned range
OutsideRowArgs(s) ==
  {<<sp_local_range(s, 0)[2]>>,
   <<sp_local_range(s, 0)[1], sp_local_range(s, 0)[2]>>}
  \cup (IF sp_local_range(s, 0)[1] > 0
        THEN {<<sp_local_range(s, 0)[1] - 1>>} ELSE {})

\* insert_global on rank p with such rows, in a build with or without
\* assertions, that stops or goes on at an out-of-bounds insertion
InsertGlobalOutside(p, rows, cols) ==
  /\ pc[p] = "idle"
  /\ ninserts < MaxInserts
  /\ ninserts' = ninserts + 1
  /\ \E ndebug \in BOOLEAN, crash \in BOOLEAN :
       /\ sp' = [sp EXCEPT ![p] =
                   insert_entries(sp[p], mpi_size, "global",
                                  IF ndebug THEN rows
                                  ELSE RowsBeforeAssert(sp[p], mpi_size, rows),
                                  cols)]
       /\ pc' = [pc EXCEPT ![p] =
                   IF ~ndebug THEN "aborted"
                   ELSE IF crash /\ InsertOutOfBounds(sp[p], mpi_size, rows)
                   THEN "crashed"
                   ELSE "idle"]
  /\ UNCHANGED <<mpi_size, inflight, nmarks, hist, touched, napplied, mvars>>

NextOutside ==
  \/ \E p \in Procs :
       \E rows \in OutsideRowArgs(sp[p]), cols \in ColArgs(sp[p], "global") :
         InsertGlobalOutside(p, rows, cols)
  \/ \E p \in Procs : \E rows \in FullRowArgs(sp[p]) : MarkFull(p, rows)

SpecOutside == Init /\ [][NextOutside]_vars

\* C13: an insert_global call with a row outside the owned row range of the
\* rank adds nothing to any diagonal set, off-diagonal set or non-local
\* buffer (every insertion call of SpecOutside is such a call).
C13_OutsideRowAddsNothing ==
  [][ninserts' # ninserts => sp' = sp]_vars


(***************************************************************************)
(* Runs with a fixed full-row set, in which the calls are logged and the   *)
(* exchange may deliver the pairs in another order.                        *)
(***************************************************************************)
RECURSIVE Reverse(_)
Reverse(s) == IF s = <<>> THEN <<>> ELSE Append(Reverse(Tail(s)), Head(s))

\* the pairs of an exchange as they arrive: in rank order, or the other way
Delivered(received, reversed) == IF reversed THEN Reverse(received) ELSE received

\* the full rows are marked before the first insertion, on no rank or on
\* every rank; hist logs the insertion calls as <<rank, kind, rows, cols>>
InitOrder ==
  /\ mpi_size \in {1, 2}
  /\ \E b \in BlockSizes, marked \in BOOLEAN :
       sp = [p \in Procs |->
               IF marked
               THEN insert_full_rows_local(
                      NewPattern(RowIndexMap(mpi_size, b, p), ColIndexMap(mpi_size, b, p)),
                      CHOOSE rows \in FullRowArgs(
                        NewPattern(RowIndexMap(mpi_size, b, p),
                                   ColIndexMap(mpi_size, b, p))) : TRUE)
               ELSE NewPattern(RowIndexMap(mpi_size, b, p), ColIndexMap(mpi_size, b, p))]
  /\ pc = [p \in Procs |-> "idle"]
  /\ inflight = [q \in Procs |-> [p \in Procs |-> <<>>]]
  /\ ninserts = 0
  /\ nmarks = 0
  /\ hist = {}
  /\ touched = FALSE
  /\ napplied = [p \in Procs |-> 0]
  /\ grid = <<>>
  /\ merged = NotMerged
  /\ answer = NoAnswer

\* insert_global, insert_local, insert_local_global on rank p, logged
LoggedInsert(p, kind, rows, cols) ==
  /\ pc[p] = "idle"
  /\ ninserts < MaxInserts
  /\ sp' = [sp EXCEPT ![p] = insert_entries(sp[p], mpi_size, kind, rows, cols)]
  /\ ninserts' = ninserts + 1
  /\ hist' = hist \cup {<<p, kind, rows, cols>>}
  /\ UNCHANGED <<mpi_size, pc, inflight, nmarks, touched, napplied, mvars>>

\* apply() on the only rank of a communicator of size 1
SerialApply(p) ==
  /\ mpi_size = 1
  /\ pc[p] = "idle"
  /\ sp' = [sp EXCEPT ![p] = ClearNonLocal(sp[p])]
  /\ UNCHANGED <<mpi_size, pc, inflight, ninserts, nmarks, hist, touched,
                 napplied, mvars>>

\* the exchange of rank p completes, the pairs arriving in one of the orders
ApplyRecvInOrder(p, reversed) ==
  /\ pc[p] = "exchange"
  /\ \A q \in Procs : inflight[q][p] # <<>>
  /\ inflight' = [q \in Procs |->
                    [inflight[q] EXCEPT ![p] = Tail(inflight[q][p])]]
  /\ Exchanged(p, Delivered(non_local_received(p, 0), reversed))
  /\ UNCHANGED <<mpi_size, ninserts, nmarks, hist, touched, napplied, mvars>>

NextOrder ==
  \/ \E p \in Procs, kind \in Kinds :
       \E rows \in RowArgs(sp[p], kind), cols \in ColArgs(sp[p], kind) :
         LoggedInsert(p, kind, rows, cols)
  \/ \E p \in Procs : SerialApply(p)
  \/ \E p \in Procs : ApplySend(p)
  \/ \E p \in Procs, reversed \in BOOLEAN : ApplyRecvInOrder(p, reversed)

SpecOrder == InitOrder /\ [][NextOrder]_vars

\* every rank is outside apply() and nothing is buffered or in flight
Finished ==
  \A p \in Procs :
    /\ pc[p] = "idle"
    /\ sp[p].non_local = <<>>
    /\ \A q \in Procs : inflight[p][q] = <<>>

\* the reference run: on the pattern s, the logged calls in one fixed order
RECURSIVE ReferenceInserted(_, _)
ReferenceInserted(s, calls) ==
  IF calls = {} THEN s
  ELSE ReferenceInserted(
         insert_entries(s, mpi_size, (CHOOSE c \in calls : TRUE)[2],
                        (CHOOSE c \in calls : TRUE)[3],
                        (CHOOSE c \in calls : TRUE)[4]),
         calls \ {CHOOSE c \in calls : TRUE})

\* rank p of the reference run before apply(): its pattern as constructed,
\* with the fixed full rows, after its logged calls
ReferenceLocal(p) ==
  ReferenceInserted(
    [sp[p] EXCEPT !.diagonal = [r \in DOMAIN sp[p].diagonal |-> {}],
                  !.off_diagonal = [r \in DOMAIN sp[p].off_diagonal |-> {}],
                  !.non_local = <<>>],
    {c \in hist : c[1] = p})

\* what rank p receives in the reference run, the buffers in rank order
RECURSIVE ReferenceReceived(_, _)
ReferenceReceived(p, q) ==
  IF q >= mpi_size THEN <<>>
  ELSE non_local_send(ReferenceLocal(q), p, 1) \o ReferenceReceived(p, q + 1)

\* rank p of the reference run after one apply() on every rank
ReferenceFinished(p) ==
  IF mpi_size = 1 THEN ClearNonLocal(ReferenceLocal(p))
  ELSE ClearNonLocal(
         InsertAllReceived(ReferenceLocal(p), ReferenceReceived(p, 0), 1).sp)

\* C14: with a fixed full-row set, whatever the order of the insertion calls,
\* the points at which apply() is called and the order in which the exchange
\* delivers the pairs, the finished pattern of every rank has the
\* diagonal_pattern(sorted) and off_diagonal_pattern(sorted) of the reference
\* run, which makes the same calls in one fixed order.
C14_OrderIndependent ==
  Finished =>
    \A p \in Procs :
      /\ diagonal_pattern(sp[p]) = diagonal_pattern(ReferenceFinished(p))
      /\ off_diagonal_pattern(sp[p]) = off_diagonal_pattern(ReferenceFinished(p))

\* C14 witness: a finished two-rank run of two calls, in which rank 1 was sent
\* two pairs and got both columns
C14_Witness ==
  /\ mpi_size = 2
  /\ Finished
  /\ Cardinality(hist) = 2
  /\ \E r \in DOMAIN sp[1].diagonal :
       Cardinality(sp[1].diagonal[r] \cup sp[1].off_diagonal[r]) >= 2
  /\ \A c \in hist : c[1] = 0 /\ c[3] = <<GhostRow(sp[0])>>


(***************************************************************************)
(* The read-only queries as calls.                                         *)
(***************************************************************************)
Queries ==
  {"num_nonzeros", "num_nonzeros_diagonal", "num_nonzeros_off_diagonal",
   "diagonal_pattern", "off_diagonal_pattern", "str"}

\* str(): for every row its diagonal columns, then its off-diagonal columns
\* unless there is no off-diagonal storage (each set listed ascending)
str(s) ==
  [r \in DOMAIN s.diagonal |->
     SortedSeq(s.diagonal[r])
       \o (IF DOMAIN s.off_diagonal # {} THEN SortedSeq(s.off_diagonal[r]) ELSE <<>>)]

\* what a query returns, as a function from rows to sequences of numbers
Ask(s, query) ==
  CASE query = "num_nonzeros" -> [r \in {0} |-> <<num_nonzeros(s)>>]
    [] query = "num_nonzeros_diagonal" ->
         [r \in DOMAIN s.diagonal |-> <<num_nonzeros_diagonal(s)[r]>>]
    [] query = "num_nonzeros_off_diagonal" ->
         [r \in DOMAIN s.off_diagonal |-> <<num_nonzeros_off_diagonal(s)[r]>>]
    [] query = "diagonal_pattern" -> diagonal_pattern(s).v
    [] query = "off_diagonal_pattern" -> off_diagonal_pattern(s).v
    [] query = "str" -> str(s)

\* lines 612, 649: the assertion of the query fails
QueryAssertFails(s, query) ==
  \/ query = "diagonal_pattern" /\ ~diagonal_pattern(s).asserted
  \/ query = "off_diagonal_pattern" /\ ~off_diagonal_pattern(s).asserted

\* a variant of Queried in which diagonal_pattern moves the columns out of
\* the diagonal sets
Queried_MovedOut(s, query) ==
  IF query = "diagonal_pattern"
  THEN [s EXCEPT !.diagonal = [r \in DOMAIN s.diagonal |-> {}]]
  ELSE s

\* the pattern after a query: the queries are const member functions, they
\* work on local copies and assign no member
Queried(s, query) == s

\* a query on rank p, in a build with or without assertions; its result is
\* held in answer until the caller takes it
Query(p, query) ==
  /\ pc[p] = "idle"
  /\ answer = NoAnswer
  /\ \E ndebug \in BOOLEAN :
       /\ pc' = [pc EXCEPT ![p] =
                   IF ~ndebug /\ QueryAssertFails(sp[p], query)
                   THEN "aborted" ELSE "idle"]
       /\ answer' = [rank |-> p, query |-> query,
                     result |-> IF ~ndebug /\ QueryAssertFails(sp[p], query)
                                THEN <<>> ELSE Ask(sp[p], query)]
  /\ sp' = [sp EXCEPT ![p] = Queried(sp[p], query)]
  /\ UNCHANGED <<mpi_size, inflight, ninserts, nmarks, hist, touched, napplied,
                 grid, merged>>

\* the caller has the result of the query: the next call can be made
QueryReturn ==
  /\ answer # NoAnswer
  /\ answer' = NoAnswer
  /\ UNCHANGED <<mpi_size, sp, pc, inflight, ninserts, nmarks, hist, touched,
                 napplied, grid, merged>>

\* the calls of a run with queries: a query is a local computation without
\* communication, so it is taken as one step between the other calls
NextQuery ==
  \/ \E p \in Procs, kind \in MergeKinds :
       \E rows \in RowArgs(sp[p], kind), cols \in ColArgs(sp[p], kind) :
         answer = NoAnswer /\ Insert(p, kind, rows, cols)
  \/ \E p \in Procs : \E rows \in FullRowArgs(sp[p]) :
       answer = NoAnswer /\ MarkFull(p, rows)
  \/ \E p \in Procs : answer = NoAnswer /\ Apply(p)
  \/ \E p \in Procs : answer = NoAnswer /\ ApplySend(p)
  \/ \E p \in Procs : answer = NoAnswer /\ ApplyRecv(p)
  \/ \E p \in Procs, query \in Queries : Query(p, query)
  \/ QueryReturn

SpecQuery == Init /\ [][NextQuery]_vars

\* C15: a query leaves the diagonal sets, off-diagonal sets, full-row set and
\* non-local buffer of every rank as they are, and what it returned is what
\* the same query returns when repeated in the state it leaves.  (A query
\* step is a step that records an answer, or one that is no insertion, no
\* marking and no step of apply().)
C15_QueriesReadOnly ==
  [][(\/ answer' # answer
      \/ <<pc', inflight', ninserts', nmarks', napplied', touched'>>
            = <<pc, inflight, ninserts, nmarks, napplied, touched>>)
       => /\ sp' = sp
          /\ (answer'.query \in Queries /\ pc'[answer'.rank] = "idle")
               => answer'.result = Ask(sp'[answer'.rank], answer'.query)]_vars

\* a two-rank run in which off_diagonal_pattern returned a non-empty row while
\* entries were still buffered for another rank
C15_Witness ==
  /\ mpi_size = 2
  /\ answer.query = "off_diagonal_pattern"
  /\ \E r \in DOMAIN answer.result : answer.result[r] # <<>>
  /\ sp[answer.rank].non_local # <<>>
  /\ answer.result = Ask(sp[answer.rank], answer.query)

(***************************************************************************)
(* Entries of ghost rows: two ranks, every insertion names one ghost row   *)
(* of the calling rank, in local indices.                                  *)
(***************************************************************************)
GhostKinds == {"local", "local_global"}

\* rows arguments: one ghost row, any element of any ghost node
GhostRowArgs(s) == {<<r>> : r \in local_size0(s)..(ghosted_size0(s) - 1)}

InitGhost == mpi_size = 2 /\ Init

NextGhost ==
  \/ \E p \in Procs, kind \in GhostKinds :
       \E rows \in GhostRowArgs(sp[p]), cols \in ColArgs(sp[p], kind) :
         Insert(p, kind, rows, cols)
  \/ \E p \in Procs : \E rows \in FullRowArgs(sp[p]) : MarkFull(p, rows)
  \/ \E p \in Procs : ApplySend(p)
  \/ \E p \in Procs : ApplyRecv(p)

SpecGhost == InitGhost /\ [][NextGhost]_vars

\* the last element of a non-empty sequence
Last(s) == s[Len(s)]

\* the owner the row IndexMap of s records for the ghost node of local row i
RecordedOwner(s, i) ==
  ghost_owners(s.index_maps[1])
    [((i - local_size0(s)) \div block_size(s.index_maps[1])) + 1]

\* rank p enters the exchange in this step: every buffered pair is in the
\* buffer sent to the recorded owner of its ghost node, which is not p, with
\* the row as a global element index, and nothing else is sent
SendRouted(p) ==
  /\ Last(inflight'[p][p]) = <<>>
  /\ SumSeq([q \in 1..mpi_size |-> Len(Last(inflight'[p][q - 1]))])
       = Len(sp[p].non_local)
  /\ \A k \in DOMAIN sp[p].non_local :
       /\ RecordedOwner(sp[p], sp[p].non_local[k][1]) # p
       /\ <<GlobalRowOf(sp[p], "local_global", sp[p].non_local[k][1]),
            sp[p].non_local[k][2]>>
            \in Range(Last(inflight'[p][RecordedOwner(sp[p], sp[p].non_local[k][1])]))

\* the exchange of rank p ends in this step: apply() returns and the column
\* of every pair sent to p is in a set of local row (global row - bs * start)
ReceivedStored(p) ==
  /\ pc'[p] = "idle"
  /\ \A q \in Procs : \A k \in DOMAIN Head(inflight[q][p]) :
       LET I == Head(inflight[q][p])[k][1]
           J == Head(inflight[q][p])[k][2]
           r == I - block_size(sp[p].index_maps[1])
                      * local_range(sp[p].index_maps[1])[1]
       IN /\ r \in DOMAIN sp'[p].diagonal
          /\ J \in sp'[p].diagonal[r] \cup sp'[p].off_diagonal[r]

\* C16: in apply(), each buffered entry of a ghost row is sent to exactly the
\* recorded owner of the ghost node, never to the sender, with its row as a
\* global element index, and the owner stores the column in the diagonal or
\* off-diagonal set of local row (global row - bs * start of its range).
C16_GhostEntryRouted ==
  [][\A p \in Procs :
       /\ (pc[p] = "idle" /\ pc'[p] = "exchange") => SendRouted(p)
       /\ (pc[p] = "exchange" /\ pc'[p] # "exchange") => ReceivedStored(p)]_vars

\* rows split [0,2) / [2,4) with block size 1: the entry (row 3, column 0)
\* inserted on rank 0 is in the sets of local row 1 of rank 1
C16_Witness ==
  /\ mpi_size = 2
  /\ block_size(sp[0].index_maps[1]) = 1
  /\ sp_local_range(sp[0], 0) = <<0, 2>>
  /\ sp_local_range(sp[1], 0) = <<2, 4>>
  /\ hist = {<<3, 0>>}
  /\ \A p \in Procs : pc[p] = "idle"
  /\ 0 \in sp[1].diagonal[1] \cup sp[1].off_diagonal[1]
  /\ sp[0].diagonal = [r \in DOMAIN sp[0].diagonal |-> {}]

\* the owned column range of rank p, in elements: [bs * start, bs * end)
OwnedColumnRange(p) ==
  (block_size(sp[p].index_maps[2]) * sp[p].index_maps[2].range[1])
    ..(block_size(sp[p].index_maps[2]) * sp[p].index_maps[2].range[2] - 1)

\* C17: on more than one rank, in every state reached by insertions and
\* apply() calls, every column of a diagonal set is inside the owned column
\* range [bs * start, bs * end) and every column of an off-diagonal set is
\* outside it; no column is in both sets of a row.
C17_ColumnsPartitioned ==
  mpi_size > 1 =>
    \A p \in Procs : \A r \in DOMAIN sp[p].diagonal :
      /\ sp[p].diagonal[r] \subseteq OwnedColumnRange(p)
      /\ sp[p].off_diagonal[r] \cap OwnedColumnRange(p) = {}
      /\ sp[p].diagonal[r] \cap sp[p].off_diagonal[r] = {}

\* every rank has returned from apply() and a row of rank 1 that received an
\* entry holds columns in both sets
C17_Witness ==
  /\ mpi_size > 1
  /\ AllApplied
  /\ \E r \in DOMAIN sp[1].diagonal :
       /\ sp[1].diagonal[r] # {}
       /\ sp[1].off_diagonal[r] # {}
       /\ \E c \in sp[1].diagonal[r] \cup sp[1].off_diagonal[r] :
            <<r + sp_local_range(sp[1], 0)[1], c>> \in hist

(***************************************************************************)
(* apply() as a collective on two ranks: MPI::all_to_all returns on a rank *)
(* once every rank has called it, and a collective that every rank has     *)
(* joined completes (weak fairness of the end of the exchange).            *)
(***************************************************************************)
LiveProcs == {0, 1}

NextLive ==
  \/ \E p \in Procs, kind \in MergeKinds :
       \E rows \in RowArgs(sp[p], kind), cols \in ColArgs(sp[p], kind) :
         Insert(p, kind, rows, cols)
  \/ \E p \in Procs : ApplySend(p)
  \/ \E p \in Procs : ApplyRecv(p)

SpecLive ==
  /\ InitGhost
  /\ [][NextLive]_vars
  /\ \A p \in LiveProcs : WF_vars(ApplyRecv(p))

C19_SerialApplyNoOp ==
  [][mpi_size = 1 =>
       /\ sp[0].non_local = <<>>
       /\ sp'[0].non_local = <<>>
       /\ ApplyStep => /\ sp'[0].diagonal = sp[0].diagonal
                       /\ sp'[0].off_diagonal = sp[0].off_diagonal
                       /\ sp'[0].full_rows = sp[0].full_rows]_vars

\* a single rank back from apply() with columns in a row and a full row
C19_Witness ==
  /\ mpi_size = 1
  /\ napplied[0] >= 1
  /\ ninserts > 0
  /\ sp[0].full_rows # {}
  /\ \E r \in DOMAIN sp[0].diagonal : sp[0].diagonal[r] # {}

\* the rows block row `row` of the grid brings: bs * owned nodes of its row
\* IndexMap
BlockRowElements(row) ==
  block_size(grid[<<row, 0>>].index_maps[1])
    * size_owned(grid[<<row, 0>>].index_maps[1])

\* C20: in the block composer, for every block row the row storage of the
\* composite grows by bs * (owned nodes of the block row), so that the target
\* row k + cumulative offset of every insertion exists, for every block size:
\* with finalised sub-patterns on matching IndexMaps the constructor returns
\* a composite, no insertion having gone past the storage.
C20_RowStorageGrows ==
  (MergeCalled /\ ~SomeNotFinalised /\ ~MismatchedIndexMaps) =>
    /\ \A row \in BlockRows :
         DiagonalSize(grid, row)
           = SumSeq([i \in 1..(row + 1) |-> BlockRowElements(i - 1)])
    /\ merged.status = "ok"
    /\ ~merged.ub
    /\ Cardinality(DOMAIN merged.sp.diagonal)
         = SumSeq([i \in 1..Cardinality(BlockRows) |-> BlockRowElements(i - 1)])

\* the sum of num_nonzeros() over the sub-patterns of the grid
GridNonzeros ==
  SumSeq([i \in 1..(Cardinality(BlockRows) * Cardinality(BlockCols)) |->
            num_nonzeros(grid[<<(i - 1) \div Cardinality(BlockCols),
                                (i - 1) % Cardinality(BlockCols)>>])])

\* some sub-pattern of the grid has a locally owned row marked full
SomeFullRow == \E c \in BlockRows \X BlockCols : OwnedFullRows(grid[c]) # {}

\* C21: block composition preserves the nonzeros of its blocks: when the
\* merge constructor returns a composite of finalised sub-patterns on matching
\* IndexMaps (no insertion having gone past the storage), num_nonzeros() of
\* the composite is the sum of num_nonzeros() over the sub-patterns of the
\* grid, sub-patterns with locally owned full rows included.
C21_ComposedNonzeros ==
  (MergeCalled /\ merged.status = "ok" /\ ~merged.ub /\ ~MismatchedIndexMaps)
    => num_nonzeros(merged.sp) = GridNonzeros

\* the sum over the local rows of rank p of num_local_nonzeros()
SumLocalNonzeros(p) == SumSeq(AsSeq(num_local_nonzeros(sp[p])))

\* C22: in every reachable state of a pattern built with the fresh
\* constructor, num_nonzeros() equals the sum over all local rows of
\* num_local_nonzeros() (num_nonzeros_diagonal() + num_nonzeros_off_diagonal()),
\* also when a row received explicit columns before it was marked full.
C22_TotalIsSumOfRows ==
  \A p \in Procs : num_nonzeros(sp[p]) = SumLocalNonzeros(p)

\* the rows of rank p owned by another rank that it holds as ghost rows, in
\* local element indices
GhostLocalRows(p) == local_size0(sp[p])..(ghosted_size0(sp[p]) - 1)

====
